---- MODULE Spec2Model ----
(***************************************************************************)
(* Model of the funds calculator: the per-client ledger state machine      *)
(* (src/src/client.rs) driven by the registry loop of process_transactions *)
(* (src/src/lib.rs).  Monetary values are f32 in the source; the model     *)
(* keeps integer-valued f32 numbers and rounds every sum and difference to *)
(* the 24-bit significand, ties to even, as the hardware does.             *)
(***************************************************************************)
EXTENDS Integers, FiniteSets, Sequences, TLC

VARIABLES clients, pc, tx, result, consumed

vars == <<clients, pc, tx, result, consumed>>

----------------------------------------------------------------------------
(* Bounds of the model. *)

MaxClient == 2
MaxTxId == 2
(* Longest input vector handed to process_transactions. *)
MaxLen == 5

(* Width of the f32 significand (implicit bit included). *)
MantissaBits == 24

ClientIds == 1..MaxClient
TxIds == 1..MaxTxId

(* Amounts of the input, all exactly representable in f32.  From 2^24 on    *)
(* the f32 values are two apart, so adding or taking 1 there has to round.  *)
Amounts == {1, 2^MantissaBits, 2^MantissaBits + 2}

----------------------------------------------------------------------------
(* transaction.rs *)

TransactionType == {"Deposit", "Withdrawal", "Dispute", "Resolve", "Chargeback"}

(* Option<f32>: None is the empty sequence, Some(a) the one-element one. *)
None == <<>>
Some(a) == <<a>>

(* Transactions as the input collaborator supplies them: the amount is      *)
(* present for Deposit and Withdrawal and absent for the other kinds.       *)
Transaction ==
    [tx_type : {"Deposit", "Withdrawal"}, client_id : ClientIds,
     tx_id : TxIds, amount : {Some(a) : a \in Amounts}]
    \cup
    [tx_type : {"Dispute", "Resolve", "Chargeback"}, client_id : ClientIds,
     tx_id : TxIds, amount : {None}]

(* Placeholder of the variable tx before the first transaction is consumed. *)
NoTx == [tx_type |-> "None", client_id |-> 0, tx_id |-> 0, amount |-> None]

----------------------------------------------------------------------------
(* f32 arithmetic on integer-valued operands. *)

Abs(n) == IF n < 0 THEN -n ELSE n

RECURSIVE Ulp(_)
(* Distance between neighbouring f32 values at magnitude m. *)
Ulp(m) == IF m < 2^MantissaBits THEN 1 ELSE 2 * Ulp(m \div 2)

(* The f32 nearest to the integer n, ties to the even significand. *)
RoundF32(n) ==
    LET m    == Abs(n)
        ulp  == Ulp(m)
        q    == m \div ulp
        r    == m % ulp
        up   == (2 * r > ulp) \/ (2 * r = ulp /\ q % 2 = 1)
        mag  == (IF up THEN q + 1 ELSE q) * ulp
    IN  IF n < 0 THEN -mag ELSE mag

F32Add(a, b) == RoundF32(a + b)
F32Sub(a, b) == RoundF32(a - b)

----------------------------------------------------------------------------
(* Results of Client::handle_transaction.  The source returns Err(String);  *)
(* each message is named by the rejection it stands for.                    *)

Ok == "Ok"
AccountLocked == "AccountLocked"
NonMonotonicTx == "NonMonotonicTx"
InsufficientFunds == "InsufficientFunds"
AlreadyDisputed == "AlreadyDisputed"
NotDisputed == "NotDisputed"
UnknownTransaction == "UnknownTransaction"
(* Option::unwrap on None: the thread panics and the run is aborted. *)
Panic == "Panic"
(* Outcome of a loop iteration that built the ledger with Client::new. *)
Created == "Created"
(* Value of result before the first transaction. *)
NoResult == "NoResult"

Rejections == {AccountLocked, NonMonotonicTx, InsufficientFunds,
               AlreadyDisputed, NotDisputed, UnknownTransaction}

(* A call's outcome: the ledger after the call and the value returned. *)
Ret(self, res) == [self |-> self, res |-> res]

----------------------------------------------------------------------------
(* client.rs: Funds *)

(* Funds::new that applies a seed Withdrawal to the balance. *)
FundsNew_withdraws(t) ==
    IF t.tx_type = "Deposit"
    THEN [available |-> t.amount[1], held |-> 0]
    ELSE IF t.tx_type = "Withdrawal"
    THEN [available |-> 0 - t.amount[1], held |-> 0]
    ELSE [available |-> 0, held |-> 0]

FundsNew(t) ==
    IF t.tx_type = "Deposit"
    THEN [available |-> t.amount[1], held |-> 0]
    ELSE [available |-> 0, held |-> 0]

calculate_total(funds) == F32Add(funds.available, funds.held)

----------------------------------------------------------------------------
(* client.rs: Client *)

(* Client::new that takes the locked flag from the kind of the seed. *)
ClientNew_locks(tx_id, t) ==
    [funds |-> FundsNew(t),
     transactions |-> [i \in {tx_id} |-> t],
     disputed_transactions |-> {},
     past_tx |-> tx_id,
     locked |-> (t.tx_type = "Chargeback")]

ClientNew(tx_id, t) ==
    [funds |-> FundsNew(t),
     transactions |-> [i \in {tx_id} |-> t],
     disputed_transactions |-> {},
     past_tx |-> tx_id,
     locked |-> FALSE]

(* format!("{:.4}", x) of an integer-valued f32: the integer digits, which   *)
(* are exact, and the four fractional digits, which are 0000.               *)
Format4(x) == [int |-> x, frac |-> 0]

(* The number a formatted field denotes, in ten-thousandths of a unit when  *)
(* there is a fraction; here the fraction is always 0.                      *)
Denoted(f) == f.int

get_record(self, client_id) ==
    <<client_id,
      Format4(self.funds.available),
      Format4(self.funds.held),
      Format4(calculate_total(self.funds)),
      self.locked>>

is_locked(self) == self.locked

(* add_tx that stores the transaction and leaves past_tx as it was. *)
add_tx_keeps_past(self, tx_id, t) ==
    [self EXCEPT
        !.transactions = [i \in DOMAIN self.transactions \cup {tx_id} |->
                             IF i = tx_id THEN t ELSE self.transactions[i]]]

add_tx(self, tx_id, t) ==
    [self EXCEPT
        !.transactions = [i \in DOMAIN self.transactions \cup {tx_id} |->
                             IF i = tx_id THEN t ELSE self.transactions[i]],
        !.past_tx = tx_id]

(* ensure_future_tx with <= for <: the watermark itself passes. *)
ensure_future_tx_le(self, tx_id) ==
    IF self.past_tx <= tx_id THEN Ok ELSE NonMonotonicTx

ensure_future_tx(self, tx_id) ==
    IF self.past_tx < tx_id THEN Ok ELSE NonMonotonicTx

should_tx_be_disputed(self, tx_id, should_be_disputed) ==
    (tx_id \in self.disputed_transactions) = should_be_disputed

(* get_tx: whether the lookup in the history succeeds. *)
get_tx(self, tx_id) ==
    IF tx_id \in DOMAIN self.transactions THEN Ok ELSE UnknownTransaction

tx_is_not_disputed(self, tx_id) ==
    IF should_tx_be_disputed(self, tx_id, FALSE) THEN Ok ELSE AlreadyDisputed

tx_is_disputed(self, tx_id) ==
    IF should_tx_be_disputed(self, tx_id, TRUE) THEN Ok ELSE NotDisputed

(* can_withdraw with > for >=: the whole balance cannot be withdrawn. *)
can_withdraw_strict(self, withdrawal_amount) ==
    self.funds.available > withdrawal_amount

can_withdraw(self, withdrawal_amount) ==
    self.funds.available >= withdrawal_amount

(* deposit_amount without the tx id check: a reused tx id is stored again. *)
deposit_amount_unordered(self, tx_id, t) ==
    IF t.amount = None
    THEN Ret(self, Panic)
    ELSE Ret(add_tx([self EXCEPT !.funds.available =
                                    F32Add(@, t.amount[1])], tx_id, t), Ok)

deposit_amount(self, tx_id, t) ==
    IF ensure_future_tx(self, tx_id) # Ok
    THEN Ret(self, ensure_future_tx(self, tx_id))
    ELSE IF t.amount = None
    THEN Ret(self, Panic)
    ELSE Ret(add_tx([self EXCEPT !.funds.available =
                                    F32Add(@, t.amount[1])], tx_id, t), Ok)

(* withdraw_amount that subtracts before it looks at the balance. *)
withdraw_amount_eager(self, tx_id, t) ==
    IF ensure_future_tx(self, tx_id) # Ok
    THEN Ret(self, ensure_future_tx(self, tx_id))
    ELSE IF t.amount = None
    THEN Ret(self, Panic)
    ELSE IF can_withdraw(self, t.amount[1])
    THEN Ret(add_tx([self EXCEPT !.funds.available =
                                    F32Sub(@, t.amount[1])], tx_id, t), Ok)
    ELSE Ret([self EXCEPT !.funds.available = F32Sub(@, t.amount[1])],
             InsufficientFunds)

withdraw_amount(self, tx_id, t) ==
    IF ensure_future_tx(self, tx_id) # Ok
    THEN Ret(self, ensure_future_tx(self, tx_id))
    ELSE IF t.amount = None
    THEN Ret(self, Panic)
    ELSE IF can_withdraw(self, t.amount[1])
    THEN Ret(add_tx([self EXCEPT !.funds.available =
                                    F32Sub(@, t.amount[1])], tx_id, t), Ok)
    ELSE Ret(self, InsufficientFunds)

resolve_amount(self, amount) ==
    [self EXCEPT !.funds.held = F32Sub(@, amount),
                 !.funds.available = F32Add(@, amount)]

withhold_amount(self, disputed_amount) ==
    [self EXCEPT !.funds.available = F32Sub(@, disputed_amount),
                 !.funds.held = F32Add(@, disputed_amount)]

chargeback_amount(self, amount) ==
    [self EXCEPT !.funds.held = F32Sub(@, amount)]

(* dispute_transaction that marks the tx id disputed before looking it up. *)
dispute_transaction_marks(self, tx_id) ==
    IF tx_is_not_disputed(self, tx_id) # Ok
    THEN Ret(self, tx_is_not_disputed(self, tx_id))
    ELSE IF get_tx(self, tx_id) # Ok
    THEN Ret([self EXCEPT !.disputed_transactions = @ \cup {tx_id}],
             get_tx(self, tx_id))
    ELSE IF self.transactions[tx_id].amount = None
    THEN Ret(self, Panic)
    ELSE Ret([withhold_amount(self, self.transactions[tx_id].amount[1])
                 EXCEPT !.disputed_transactions = @ \cup {tx_id}], Ok)

dispute_transaction(self, tx_id) ==
    IF tx_is_not_disputed(self, tx_id) # Ok
    THEN Ret(self, tx_is_not_disputed(self, tx_id))
    ELSE IF get_tx(self, tx_id) # Ok
    THEN Ret(self, get_tx(self, tx_id))
    ELSE IF self.transactions[tx_id].amount = None
    THEN Ret(self, Panic)
    ELSE Ret([withhold_amount(self, self.transactions[tx_id].amount[1])
                 EXCEPT !.disputed_transactions = @ \cup {tx_id}], Ok)

(* resolve_transaction that looks the transaction up before it tests the   *)
(* disputed set.                                                            *)
resolve_transaction_lookupfirst(self, tx_id) ==
    IF get_tx(self, tx_id) # Ok
    THEN Ret(self, get_tx(self, tx_id))
    ELSE IF tx_is_disputed(self, tx_id) # Ok
    THEN Ret(self, tx_is_disputed(self, tx_id))
    ELSE IF self.transactions[tx_id].amount = None
    THEN Ret(self, Panic)
    ELSE Ret([resolve_amount(self, self.transactions[tx_id].amount[1])
                 EXCEPT !.disputed_transactions = @ \ {tx_id}], Ok)

(* resolve_transaction that files the resolved transaction again with      *)
(* add_tx, which moves the watermark to its tx id.                          *)
resolve_transaction_refiles(self, tx_id) ==
    IF tx_is_disputed(self, tx_id) # Ok
    THEN Ret(self, tx_is_disputed(self, tx_id))
    ELSE IF get_tx(self, tx_id) # Ok
    THEN Ret(self, get_tx(self, tx_id))
    ELSE IF self.transactions[tx_id].amount = None
    THEN Ret(self, Panic)
    ELSE Ret(add_tx([resolve_amount(self, self.transactions[tx_id].amount[1])
                        EXCEPT !.disputed_transactions = @ \ {tx_id}],
                    tx_id, self.transactions[tx_id]), Ok)

resolve_transaction(self, tx_id) ==
    IF tx_is_disputed(self, tx_id) # Ok
    THEN Ret(self, tx_is_disputed(self, tx_id))
    ELSE IF get_tx(self, tx_id) # Ok
    THEN Ret(self, get_tx(self, tx_id))
    ELSE IF self.transactions[tx_id].amount = None
    THEN Ret(self, Panic)
    ELSE Ret([resolve_amount(self, self.transactions[tx_id].amount[1])
                 EXCEPT !.disputed_transactions = @ \ {tx_id}], Ok)

(* chargeback_transaction without the assignment to locked. *)
chargeback_transaction_nolock(self, tx_id) ==
    IF tx_is_disputed(self, tx_id) # Ok
    THEN Ret(self, tx_is_disputed(self, tx_id))
    ELSE IF get_tx(self, tx_id) # Ok
    THEN Ret(self, get_tx(self, tx_id))
    ELSE IF self.transactions[tx_id].amount = None
    THEN Ret(self, Panic)
    ELSE Ret([chargeback_amount(self, self.transactions[tx_id].amount[1])
                 EXCEPT !.disputed_transactions = @ \ {tx_id}], Ok)

chargeback_transaction(self, tx_id) ==
    IF tx_is_disputed(self, tx_id) # Ok
    THEN Ret(self, tx_is_disputed(self, tx_id))
    ELSE IF get_tx(self, tx_id) # Ok
    THEN Ret(self, get_tx(self, tx_id))
    ELSE IF self.transactions[tx_id].amount = None
    THEN Ret(self, Panic)
    ELSE Ret([chargeback_amount(self, self.transactions[tx_id].amount[1])
                 EXCEPT !.locked = TRUE,
                        !.disputed_transactions = @ \ {tx_id}], Ok)

(* handle_transaction without the early return on a locked account. *)
handle_transaction_nolockcheck(self, t) ==
    CASE t.tx_type = "Deposit"    -> deposit_amount(self, t.tx_id, t)
      [] t.tx_type = "Withdrawal" -> withdraw_amount(self, t.tx_id, t)
      [] t.tx_type = "Dispute"    -> dispute_transaction(self, t.tx_id)
      [] t.tx_type = "Resolve"    -> resolve_transaction(self, t.tx_id)
      [] t.tx_type = "Chargeback" -> chargeback_transaction(self, t.tx_id)

handle_transaction(self, t) ==
    IF is_locked(self)
    THEN Ret(self, AccountLocked)
    ELSE CASE t.tx_type = "Deposit"    -> deposit_amount(self, t.tx_id, t)
           [] t.tx_type = "Withdrawal" -> withdraw_amount(self, t.tx_id, t)
           [] t.tx_type = "Dispute"    -> dispute_transaction(self, t.tx_id)
           [] t.tx_type = "Resolve"    -> resolve_transaction(self, t.tx_id)
           [] t.tx_type = "Chargeback" -> chargeback_transaction(self, t.tx_id)

----------------------------------------------------------------------------
(* lib.rs: process_transactions, one loop iteration per step. *)

Init ==
    /\ clients = << >>
    /\ pc = "loop"
    /\ tx = NoTx
    /\ result = NoResult
    /\ consumed = 0

(* A vacant entry that stores Client::new and then hands the transaction to *)
(* handle_transaction as well.                                              *)
InsertClient_applies(t) ==
    /\ pc = "loop"
    /\ consumed < MaxLen
    /\ consumed' = consumed + 1
    /\ t.client_id \notin DOMAIN clients
    /\ LET r == handle_transaction(ClientNew(t.tx_id, t), t)
       IN  /\ clients' = [c \in DOMAIN clients \cup {t.client_id} |->
                             IF c = t.client_id THEN r.self ELSE clients[c]]
           /\ result' = r.res
    /\ tx' = t
    /\ pc' = "loop"

(* Vacant entry: and_modify does nothing, or_insert stores Client::new. *)
InsertClient(t) ==
    /\ pc = "loop"
    /\ consumed < MaxLen
    /\ consumed' = consumed + 1
    /\ t.client_id \notin DOMAIN clients
    /\ clients' = [c \in DOMAIN clients \cup {t.client_id} |->
                      IF c = t.client_id THEN ClientNew(t.tx_id, t)
                      ELSE clients[c]]
    /\ tx' = t
    /\ result' = Created
    /\ pc' = "loop"

(* An occupied entry whose handler looks tx ids up in the whole registry: a *)
(* Dispute, Resolve or Chargeback of a tx id its client has no record of is *)
(* applied to the ledger of a client that has one.                          *)
ModifyClient_registrywide(t) ==
    /\ pc = "loop"
    /\ consumed < MaxLen
    /\ consumed' = consumed + 1
    /\ t.client_id \in DOMAIN clients
    /\ LET elsewhere ==
               /\ t.tx_type \in {"Dispute", "Resolve", "Chargeback"}
               /\ t.tx_id \notin DOMAIN clients[t.client_id].transactions
               /\ \E d \in DOMAIN clients :
                      t.tx_id \in DOMAIN clients[d].transactions
           holder ==
               IF elsewhere
               THEN CHOOSE d \in DOMAIN clients :
                        t.tx_id \in DOMAIN clients[d].transactions
               ELSE t.client_id
           r == handle_transaction(clients[holder], t)
       IN  /\ r.res # Panic
           /\ clients' = [clients EXCEPT ![holder] = r.self]
           /\ result' = r.res
    /\ tx' = t
    /\ pc' = "loop"

(* Occupied entry: and_modify runs handle_transaction on the ledger; an Err *)
(* is printed and the loop goes on.  The Client::new argument of or_insert  *)
(* is built and dropped.                                                    *)
ModifyClient(t) ==
    /\ pc = "loop"
    /\ consumed < MaxLen
    /\ consumed' = consumed + 1
    /\ t.client_id \in DOMAIN clients
    /\ LET r == handle_transaction(clients[t.client_id], t)
       IN  /\ r.res # Panic
           /\ clients' = [clients EXCEPT ![t.client_id] = r.self]
           /\ result' = r.res
    /\ tx' = t
    /\ pc' = "loop"

(* Occupied entry, and handle_transaction unwraps a None amount: the panic  *)
(* unwinds out of process_transactions and no registry is returned.         *)
PanicClient(t) ==
    /\ pc = "loop"
    /\ consumed < MaxLen
    /\ consumed' = consumed + 1
    /\ t.client_id \in DOMAIN clients
    /\ handle_transaction(clients[t.client_id], t).res = Panic
    /\ tx' = t
    /\ result' = Panic
    /\ pc' = "panicked"
    /\ UNCHANGED clients

(* The input vector is exhausted: Ok(clients). *)
Return ==
    /\ pc = "loop"
    /\ pc' = "done"
    /\ UNCHANGED <<clients, tx, result, consumed>>

(* What a prefix of the run leaves behind: the registry and whether the run *)
(* is still going.  A panic unwinds process_transactions and drops the      *)
(* registry.                                                                *)
Outcome(cl, p) ==
    IF p = "panicked" THEN [clients |-> << >>, pc |-> "panicked"]
    ELSE [clients |-> cl, pc |-> "loop"]

(* One loop iteration as a function of the outcome so far and the           *)
(* transaction: vacant entry -> Client::new, occupied -> handle_transaction. *)
Route(o, t) ==
    IF o.pc = "panicked" THEN o
    ELSE IF t.client_id \notin DOMAIN o.clients
    THEN Outcome([c \in DOMAIN o.clients \cup {t.client_id} |->
                     IF c = t.client_id THEN ClientNew(t.tx_id, t)
                     ELSE o.clients[c]], "loop")
    ELSE LET r == handle_transaction(o.clients[t.client_id], t)
         IN  IF r.res = Panic THEN Outcome(o.clients, "panicked")
             ELSE Outcome([o.clients EXCEPT ![t.client_id] = r.self], "loop")

(* The transactions of the input addressed to client c. *)
ClientTransactions(c) == {t \in Transaction : t.client_id = c}

(* The run seen from one client: the subsequence of the input addressed to  *)
(* client 1, which is all that reaches that client's ledger.                *)
Next ==
    \/ \E t \in ClientTransactions(1) : InsertClient(t)
    \/ \E t \in ClientTransactions(1) : ModifyClient(t)
    \/ \E t \in ClientTransactions(1) : PanicClient(t)
    \/ Return

Spec == Init /\ [][Next]_vars

(* The whole run: transactions of every client, interleaved in any order. *)
NextRegistry ==
    \/ \E t \in Transaction : InsertClient(t)
    \/ \E t \in Transaction : ModifyClient(t)
    \/ \E t \in Transaction : PanicClient(t)
    \/ Return

SpecRegistry == Init /\ [][NextRegistry]_vars

(* The whole run again, on short inputs whose amounts are below 2^24, for   *)
(* the properties of the routing, which the amounts play no part in.        *)
RoutingLen == MaxLen - 2

RoutingTransaction ==
    {t \in Transaction : t.amount = None \/ t.amount[1] < 2^MantissaBits}

NextRouting ==
    \/ \E t \in RoutingTransaction : consumed < RoutingLen /\ InsertClient(t)
    \/ \E t \in RoutingTransaction : consumed < RoutingLen /\ ModifyClient(t)
    \/ \E t \in RoutingTransaction : consumed < RoutingLen /\ PanicClient(t)
    \/ Return

SpecRouting == Init /\ [][NextRouting]_vars

(* One iteration of the loop of process_transactions as a single step,      *)
(* whichever branch of the entry it takes.                                  *)
Iterate(t) ==
    /\ pc = "loop"
    /\ consumed' = consumed + 1
    /\ tx' = t
    /\ LET o == Route(Outcome(clients, pc), t)
       IN  /\ pc' = o.pc
           /\ clients' = IF o.pc = "panicked" THEN clients ELSE o.clients
    /\ result' = IF t.client_id \notin DOMAIN clients THEN Created
                 ELSE handle_transaction(clients[t.client_id], t).res

(* The run seen from one client once more, on longer inputs with one more   *)
(* tx id, for the properties of the balances that take three recorded       *)
(* transactions and two disputes to show.                                   *)
LedgerLen == MaxLen + 2

LedgerTransaction ==
    [tx_type : {"Deposit", "Withdrawal"}, client_id : {1},
     tx_id : 1..(MaxTxId + 1), amount : {Some(a) : a \in Amounts}]
    \cup
    [tx_type : {"Dispute", "Resolve", "Chargeback"}, client_id : {1},
     tx_id : 1..(MaxTxId + 1), amount : {None}]

NextLedger ==
    \/ \E t \in LedgerTransaction : consumed < LedgerLen /\ Iterate(t)
    \/ Return

SpecLedger == Init /\ [][NextLedger]_vars

----------------------------------------------------------------------------
(* Vocabulary of the properties. *)

(* The step consumed a transaction of the input (it is not Return). *)
Consumes == consumed' = consumed + 1

(* The step called handle_transaction on the existing ledger of client c. *)
Handles(c) == Consumes /\ c \in DOMAIN clients /\ tx'.client_id = c

----------------------------------------------------------------------------
(* C1: a call of handle_transaction that returns a rejection leaves the     *)
(* whole ledger as it was: available, held, locked, the disputed set, the   *)
(* watermark past_tx and the stored history (and every other ledger too).   *)
C1_RejectionLeavesLedger ==
    [][(Consumes /\ result' \in Rejections) => clients' = clients]_vars

(* A withdrawal larger than the balance, with a fresh tx id, was rejected. *)
C1_Witness ==
    /\ result = InsufficientFunds
    /\ tx.tx_type = "Withdrawal"
    /\ clients[tx.client_id].past_tx < tx.tx_id

(* C2: once a ledger is locked, every later call for that client returns    *)
(* AccountLocked and the ledger (funds, disputed set, history, watermark,   *)
(* locked flag) never changes again.                                        *)
C2_LockedIsTerminal ==
    [][\A c \in DOMAIN clients :
          clients[c].locked =>
              /\ c \in DOMAIN clients'
              /\ clients'[c] = clients[c]
              /\ (Handles(c) => result' = AccountLocked)]_vars

(* A transaction reached a locked ledger. *)
C2_Witness ==
    /\ result = AccountLocked
    /\ clients[tx.client_id].locked

(* C3: a ledger is built unlocked, and locked goes from false to true only  *)
(* in a step that is a Chargeback returning Ok for that client.             *)
C3_OnlyChargebackLocks ==
    [][\A c \in DOMAIN clients' :
          /\ (c \notin DOMAIN clients => ~clients'[c].locked)
          /\ (c \in DOMAIN clients /\ ~clients[c].locked /\ clients'[c].locked
                 => /\ Handles(c)
                    /\ tx'.tx_type = "Chargeback"
                    /\ result' = Ok)]_vars

(* A chargeback has just locked a ledger. *)
C3_Witness ==
    /\ result = Ok
    /\ tx.tx_type = "Chargeback"
    /\ clients[tx.client_id].locked

(* C4: process_transactions consumes every transaction of a well-formed     *)
(* input and returns the registry; no transaction aborts the run.           *)
C4_NoTransactionAborts == pc # "panicked"

(* C5: the stored history of every ledger holds only Deposit and Withdrawal *)
(* transactions.                                                            *)
C5_HistoryOnlyMonetary ==
    \A c \in DOMAIN clients :
        \A i \in DOMAIN clients[c].transactions :
            clients[c].transactions[i].tx_type \in {"Deposit", "Withdrawal"}

(* The step follows a Chargeback that returned Ok and is a Chargeback or a  *)
(* Resolve of the same tx id for the same client.                           *)
AfterChargeback ==
    /\ result = Ok
    /\ tx.tx_type = "Chargeback"
    /\ Handles(tx.client_id)
    /\ tx'.tx_id = tx.tx_id
    /\ tx'.tx_type \in {"Chargeback", "Resolve"}

(* C6, as stated: after a dispute and a successful chargeback of a tx id, a *)
(* second Chargeback or a Resolve of it fails with NotDisputed.             *)
C6_SecondChargebackNotDisputed ==
    [][AfterChargeback => result' = NotDisputed]_vars

(* C6, amended: after a dispute and a successful chargeback of a tx id, a   *)
(* second Chargeback or a Resolve of it is rejected with AccountLocked and  *)
(* changes nothing.                                                         *)
C6_SecondChargebackAccountLocked ==
    [][AfterChargeback => (result' = AccountLocked /\ clients' = clients)]_vars

(* A Chargeback or Resolve arrived for a ledger locked by a chargeback of   *)
(* that tx id: the id is in the history and no longer disputed.             *)
C6_Witness ==
    /\ tx.tx_type \in {"Chargeback", "Resolve"}
    /\ result = AccountLocked
    /\ clients[tx.client_id].locked
    /\ tx.tx_id \in DOMAIN clients[tx.client_id].transactions
    /\ tx.tx_id \notin clients[tx.client_id].disputed_transactions

C8_MonotonicTxIds ==
    [][\A c \in DOMAIN clients :
          (Handles(c) /\ ~clients[c].locked) =>
              /\ (tx'.tx_type \in {"Deposit", "Withdrawal"}
                    /\ tx'.tx_id <= clients[c].past_tx
                        => result' = NonMonotonicTx)
              /\ (tx'.tx_type = "Deposit" /\ tx'.tx_id > clients[c].past_tx
                        => result' = Ok)]_vars

(* A stale Withdrawal that the balance could not have covered either was    *)
(* rejected for its tx id.                                                  *)
C8_Witness ==
    /\ result = NonMonotonicTx
    /\ tx.tx_type = "Withdrawal"
    /\ tx.amount[1] > clients[tx.client_id].funds.available
    /\ ~clients[tx.client_id].locked

DisputeOf(c, i) ==
    [tx_type |-> "Dispute", client_id |-> c, tx_id |-> i, amount |-> None]

ResolveOf(c, i) ==
    [tx_type |-> "Resolve", client_id |-> c, tx_id |-> i, amount |-> None]

(* C9: on every reachable unlocked ledger and for every recorded tx id not  *)
(* disputed, a Dispute that succeeds followed at once by a Resolve of the   *)
(* same id leaves available, held and the disputed set as before.           *)
C9_DisputeResolveRoundTrip ==
    \A c \in DOMAIN clients :
        \A i \in DOMAIN clients[c].transactions :
            (~clients[c].locked /\ i \notin clients[c].disputed_transactions) =>
                LET d == handle_transaction(clients[c], DisputeOf(c, i))
                    r == handle_transaction(d.self, ResolveOf(c, i))
                IN  d.res = Ok =>
                        /\ r.res = Ok
                        /\ r.self.funds = clients[c].funds
                        /\ r.self.disputed_transactions =
                               clients[c].disputed_transactions

(* C10: a Dispute of a recorded, undisputed tx id on an unlocked ledger     *)
(* always succeeds, moves exactly the stored amount from available to held  *)
(* and adds the id to the disputed set, whatever the balance.               *)
C10_DisputeMovesAmount ==
    [][\A c \in DOMAIN clients :
          (/\ Handles(c)
           /\ tx'.tx_type = "Dispute"
           /\ ~clients[c].locked
           /\ tx'.tx_id \in DOMAIN clients[c].transactions
           /\ tx'.tx_id \notin clients[c].disputed_transactions) =>
              /\ result' = Ok
              /\ clients'[c].funds.available =
                     clients[c].funds.available
                         - clients[c].transactions[tx'.tx_id].amount[1]
              /\ clients'[c].funds.held =
                     clients[c].funds.held
                         + clients[c].transactions[tx'.tx_id].amount[1]
              /\ clients'[c].disputed_transactions =
                     clients[c].disputed_transactions \cup {tx'.tx_id}]_vars

(* C11: a Chargeback that returns Ok takes exactly the stored amount of the *)
(* disputed transaction from held, leaves available alone, sets locked and  *)
(* removes the tx id from the disputed set.                                 *)
C11_ChargebackTakesHeld ==
    [][\A c \in DOMAIN clients :
          (Handles(c) /\ tx'.tx_type = "Chargeback" /\ result' = Ok) =>
              /\ tx'.tx_id \in clients[c].disputed_transactions
              /\ clients'[c].funds.held =
                     clients[c].funds.held
                         - clients[c].transactions[tx'.tx_id].amount[1]
              /\ clients'[c].funds.available = clients[c].funds.available
              /\ clients'[c].locked
              /\ clients'[c].disputed_transactions =
                     clients[c].disputed_transactions \ {tx'.tx_id}]_vars

(* C12: on an unlocked ledger a Dispute of a tx id that is not in the       *)
(* history is rejected with UnknownTransaction, and the funds and the       *)
(* disputed set stay as they were.                                          *)
C12_DisputeUnknownTransaction ==
    [][\A c \in DOMAIN clients :
          (/\ Handles(c)
           /\ tx'.tx_type = "Dispute"
           /\ ~clients[c].locked
           /\ tx'.tx_id \notin DOMAIN clients[c].transactions) =>
              /\ result' = UnknownTransaction
              /\ clients'[c].funds = clients[c].funds
              /\ clients'[c].disputed_transactions =
                     clients[c].disputed_transactions]_vars

(* A Dispute named a tx id the ledger has no record of. *)
C12_Witness ==
    /\ result = UnknownTransaction
    /\ tx.tx_type = "Dispute"
    /\ tx.tx_id \notin DOMAIN clients[tx.client_id].transactions

(* C13: on an unlocked ledger a Resolve or a Chargeback of a tx id that is  *)
(* not in the disputed set (never recorded, never disputed or resolved      *)
(* already) is rejected with NotDisputed, the ledger stays unlocked and the *)
(* funds stay; a Dispute of a tx id in the disputed set is rejected with    *)
(* AlreadyDisputed.                                                         *)
C13_NotDisputedAlreadyDisputed ==
    [][\A c \in DOMAIN clients :
          (Handles(c) /\ ~clients[c].locked) =>
              /\ (tx'.tx_type \in {"Resolve", "Chargeback"}
                    /\ tx'.tx_id \notin clients[c].disputed_transactions)
                 => (/\ result' = NotDisputed
                     /\ ~clients'[c].locked
                     /\ clients'[c].funds = clients[c].funds)
              /\ (tx'.tx_type = "Dispute"
                    /\ tx'.tx_id \in clients[c].disputed_transactions)
                 => result' = AlreadyDisputed]_vars

(* A Resolve or Chargeback named a tx id that was never recorded. *)
C13_Witness ==
    /\ result = NotDisputed
    /\ tx.tx_type \in {"Resolve", "Chargeback"}
    /\ tx.tx_id \notin DOMAIN clients[tx.client_id].transactions

(* C14: the ledger built from a client's first transaction has available =  *)
(* the amount for a Deposit and 0 for any other kind, held = 0, locked =    *)
(* false, no disputed tx id and the seed's tx id as watermark; a first-seen *)
(* Withdrawal takes nothing off the balance but its tx id counts, so the    *)
(* next Deposit or Withdrawal with a tx id not above it is rejected.        *)
C14_LedgerFromFirstTransaction ==
    [][/\ \A c \in DOMAIN clients' \ DOMAIN clients :
             /\ Consumes /\ tx'.client_id = c
             /\ clients'[c].funds.available =
                    (IF tx'.tx_type = "Deposit" THEN tx'.amount[1] ELSE 0)
             /\ clients'[c].funds.held = 0
             /\ ~clients'[c].locked
             /\ clients'[c].disputed_transactions = {}
             /\ clients'[c].past_tx = tx'.tx_id
       /\ (/\ result = Created
           /\ tx.tx_type = "Withdrawal"
           /\ Handles(tx.client_id)
           /\ tx'.tx_type \in {"Deposit", "Withdrawal"}
           /\ tx'.tx_id <= tx.tx_id)
          => result' = NonMonotonicTx]_vars

(* A ledger seeded by a Withdrawal has an empty balance and has just turned *)
(* down a Deposit or Withdrawal for its tx id.                              *)
C14_Witness ==
    /\ result = NonMonotonicTx
    /\ DOMAIN clients[tx.client_id].transactions = {clients[tx.client_id].past_tx}
    /\ clients[tx.client_id].transactions[clients[tx.client_id].past_tx].tx_type
           = "Withdrawal"
    /\ clients[tx.client_id].funds.available = 0

(* C17: a Deposit accepted on an existing ledger raises available by        *)
(* exactly its amount, leaves held, locked and the disputed set alone,      *)
(* stores the transaction under its tx id and makes that id the watermark.  *)
C17_DepositAddsAmount ==
    [][\A c \in DOMAIN clients :
          (Handles(c) /\ tx'.tx_type = "Deposit" /\ result' = Ok) =>
              /\ clients'[c].funds.available =
                     clients[c].funds.available + tx'.amount[1]
              /\ clients'[c].funds.held = clients[c].funds.held
              /\ clients'[c].locked = clients[c].locked
              /\ clients'[c].disputed_transactions =
                     clients[c].disputed_transactions
              /\ tx'.tx_id \in DOMAIN clients'[c].transactions
              /\ clients'[c].transactions[tx'.tx_id] = tx'
              /\ clients'[c].past_tx = tx'.tx_id]_vars

(* The total / available / held that get_record reports for client c. *)
ReportedAvailable(cl, c) == Denoted(get_record(cl[c], c)[2])
ReportedHeld(cl, c) == Denoted(get_record(cl[c], c)[3])
ReportedTotal(cl, c) == Denoted(get_record(cl[c], c)[4])

(* C18: for every client the reported total is available + held after the  *)
(* construction of the ledger and after every call of handle_transaction,   *)
(* accepted or rejected; a Dispute and a Resolve leave the total as it was. *)
C18_TotalIsAvailablePlusHeld ==
    [][\A c \in DOMAIN clients' :
          /\ ReportedTotal(clients', c) =
                 ReportedAvailable(clients', c) + ReportedHeld(clients', c)
          /\ (Handles(c) /\ tx'.tx_type \in {"Dispute", "Resolve"})
                 => ReportedTotal(clients', c) = ReportedTotal(clients, c)]_vars

(* C19: Dispute, Resolve and Chargeback do not go through the tx id check   *)
(* and leave the ordering state alone: whether the call is accepted or      *)
(* rejected, the watermark and the stored history are what they were (and   *)
(* the witness shows one accepted with a tx id below the watermark).        *)
C19_DisputeFamilyKeepsOrderingState ==
    [][\A c \in DOMAIN clients :
          (Handles(c) /\ tx'.tx_type \in {"Dispute", "Resolve", "Chargeback"})
              => /\ result' # NonMonotonicTx
                 /\ clients'[c].past_tx = clients[c].past_tx
                 /\ clients'[c].transactions = clients[c].transactions]_vars

(* A Resolve was accepted for a tx id below the watermark. *)
C19_Witness ==
    /\ result = Ok
    /\ tx.tx_type = "Resolve"
    /\ tx.tx_id < clients[tx.client_id].past_tx

Max(S) == CHOOSE x \in S : \A y \in S : y <= x

(* C20: the watermark past_tx is the largest tx id stored in the history;   *)
(* it never goes down, and every accepted Deposit or Withdrawal raises it.  *)
C20_WatermarkIsLargestKey ==
    [][\A c \in DOMAIN clients' :
          /\ clients'[c].past_tx = Max(DOMAIN clients'[c].transactions)
          /\ c \in DOMAIN clients =>
                /\ clients'[c].past_tx >= clients[c].past_tx
                /\ (/\ Handles(c)
                    /\ tx'.tx_type \in {"Deposit", "Withdrawal"}
                    /\ result' = Ok)
                   => clients'[c].past_tx > clients[c].past_tx]_vars

(* A Withdrawal was accepted on a ledger that already held a transaction,   *)
(* and its tx id is the watermark.                                          *)
C20_Witness ==
    /\ result = Ok
    /\ tx.tx_type = "Withdrawal"
    /\ clients[tx.client_id].past_tx = tx.tx_id
    /\ Cardinality(DOMAIN clients[tx.client_id].transactions) > 1

(* C15: the first transaction seen for a client id builds that client's     *)
(* ledger with Client::new and nothing else (handle_transaction is not      *)
(* called on it); every later transaction for the id goes through           *)
(* handle_transaction on the existing ledger once; and the keys of the      *)
(* registry are the client ids met so far, so at the end of the input they  *)
(* are the client ids of the input.                                         *)
C15_FirstSeenBuildsLaterHandled ==
    [][/\ Consumes =>
            /\ DOMAIN clients' = DOMAIN clients \cup {tx'.client_id}
            /\ tx'.client_id \notin DOMAIN clients =>
                   /\ clients'[tx'.client_id] = ClientNew(tx'.tx_id, tx')
                   /\ result' = Created
            /\ tx'.client_id \in DOMAIN clients =>
                   /\ result' =
                          handle_transaction(clients[tx'.client_id], tx').res
                   /\ result' # Panic =>
                          clients'[tx'.client_id] =
                              handle_transaction(clients[tx'.client_id],
                                                 tx').self
       /\ ~Consumes => clients' = clients]_vars

(* The registry holds two clients, one of them built from a transaction     *)
(* that handle_transaction would have turned down, and the last transaction *)
(* was handled on an existing ledger.                                       *)
C15_Witness ==
    /\ Cardinality(DOMAIN clients) = 2
    /\ result = Ok
    /\ \E c \in DOMAIN clients :
           /\ clients[c].transactions[clients[c].past_tx].tx_type = "Resolve"
           /\ DOMAIN clients[c].transactions = {clients[c].past_tx}

(* The registry cut down to the ledger of client c. *)
Own(cl, c) == [d \in DOMAIN cl \cap {c} |-> cl[d]]

(* C16: a transaction addressed to client c changes no other client's       *)
(* ledger, also when its tx id is recorded under another client, and what   *)
(* it does to c's ledger is what it would do were c alone in the registry:  *)
(* each final ledger is a function of the client's own transactions in      *)
(* their order, whatever the interleaving with other clients'.              *)
C16_LedgerDependsOnOwnTransactions ==
    [][Consumes =>
          LET c == tx'.client_id
              alone == Route(Outcome(Own(clients, c), "loop"), tx')
          IN  /\ \A d \in DOMAIN clients \ {c} :
                     d \in DOMAIN clients' /\ clients'[d] = clients[d]
              /\ DOMAIN clients' = DOMAIN clients \cup {c}
              /\ (pc' = "panicked") <=> (alone.pc = "panicked")
              /\ pc' # "panicked" => Own(clients', c) = alone.clients]_vars

(* A Dispute for one client named a tx id that only another client has on   *)
(* record, and was turned down.                                             *)
C16_Witness ==
    /\ result = UnknownTransaction
    /\ tx.tx_type = "Dispute"
    /\ \E d \in DOMAIN clients \ {tx.client_id} :
           tx.tx_id \in DOMAIN clients[d].transactions

(* C21: the stored history is append-only: an entry recorded under a tx id  *)
(* stays under that id with the same kind and amount through every later    *)
(* step, be it a Deposit or Withdrawal reusing the id or a Dispute, Resolve *)
(* or Chargeback of it.                                                     *)
C21_HistoryAppendOnly ==
    [][\A c \in DOMAIN clients :
          /\ c \in DOMAIN clients'
          /\ \A i \in DOMAIN clients[c].transactions :
                 /\ i \in DOMAIN clients'[c].transactions
                 /\ clients'[c].transactions[i] = clients[c].transactions[i]]_vars

(* A Deposit or Withdrawal reused the tx id of a recorded transaction of    *)
(* another kind or amount, which is under dispute, and the recorded entry   *)
(* is still the old one.                                                    *)
C21_Witness ==
    /\ result = NonMonotonicTx
    /\ tx.tx_id \in clients[tx.client_id].disputed_transactions
    /\ clients[tx.client_id].transactions[tx.tx_id] # tx

(* The sum of the stored amounts of the transactions of ledger self whose   *)
(* tx ids are in S, as a number (not as an f32).                            *)
RECURSIVE StoredAmounts(_, _)
StoredAmounts(self, S) ==
    IF S = {} THEN 0
    ELSE LET i == CHOOSE j \in S : TRUE
             a == self.transactions[i].amount
         IN  (IF a = None THEN 0 ELSE a[1]) + StoredAmounts(self, S \ {i})

(* C22: in every reachable ledger every disputed tx id is a key of the      *)
(* history and held is the sum of the stored amounts of the disputed        *)
(* transactions; so held is never negative and is zero when nothing is      *)
(* disputed.                                                                *)
C22_HeldIsSumOfDisputed ==
    \A c \in DOMAIN clients :
        /\ clients[c].disputed_transactions \subseteq
               DOMAIN clients[c].transactions
        /\ clients[c].funds.held =
               StoredAmounts(clients[c], clients[c].disputed_transactions)
        /\ clients[c].funds.held >= 0
        /\ (clients[c].disputed_transactions = {} => clients[c].funds.held = 0)

(* C23: available can be negative only because of a dispute: in every       *)
(* reachable ledger that is unlocked and has no disputed transaction,       *)
(* available is at least zero, and in every unlocked ledger available +     *)
(* held is at least zero.                                                   *)
C23_NegativeOnlyUnderDispute ==
    \A c \in DOMAIN clients :
        ~clients[c].locked =>
            /\ (clients[c].disputed_transactions = {}
                   => clients[c].funds.available >= 0)
            /\ clients[c].funds.available + clients[c].funds.held >= 0

====
